---- MODULE Spec2Model ----
(***************************************************************************)
(* Page-frame allocator with per-region ownership tracking                 *)
(* (src/src/memory_management.c), the spin lock it uses                    *)
(* (src/src/scalability.h) and the current-principal part of the security  *)
(* subsystem (src/iso/src/security.c).                                     *)
(*                                                                         *)
(* Addresses are 32-bit unsigned integers, a frame index f stands for the  *)
(* address f * PAGE_SIZE.  The physical range, the kernel range and the    *)
(* region table are scaled down (NumFrames, KernelPages,                   *)
(* MAX_MEMORY_REGIONS); the scaling keeps the order of the source, where   *)
(* the region table (1024 entries, one of them the kernel region) is       *)
(* smaller than the number of user frames (4096 - 256).  The word width    *)
(* is scaled as well (AddrBits), since the model checker's integers are    *)
(* narrower than 2^32; sums of addresses wrap at that width.               *)
(***************************************************************************)
EXTENDS Integers, Sequences, FiniteSets, TLC

\* ---------------------------------------------------------------- bounds
NumFrames == 6              \* PHYS_MEMORY_END / PAGE_SIZE, scaled (4096 in the source)
KernelPages == 2            \* KERNEL_END / PAGE_SIZE, scaled (256 in the source)
MAX_MEMORY_REGIONS == 4     \* scaled (1024 in the source)
NumCallers == 2             \* concurrent callers of allocate_memory/free_memory
SC_MAX_THREADS == 4         \* scaled (64 in the source)
SC_MAX_CPUS == 3            \* scaled (8 in the source)
MaxSlices == 2              \* most slices a thread takes before it completes
HashBits == 16              \* width of simple_hash, scaled (uint32_t in the source)
MAX_USERS == 2              \* size of user_database, scaled (16 in the source)
StaleThreads == 2           \* most threads in a state with stale queue entries
MaxViolations == 3          \* largest security_violations_logged a call starts from
MaxTicks == 2               \* most implicit yields of one thread in the paired runs
MAX_FILES_PER_DIR == 2      \* scaled (16 in the source)
MAX_BLOCKS_PER_FILE == 2    \* scaled (8 in the source)
TotalBlocks == 3            \* fs->total_blocks, memory_size / BLOCK_SIZE of fs_init
AddrBits == 24              \* width of uint32_t, scaled (32 in the source)

\* ------------------------------------------------------ program constants
PAGE_SIZE == 4096
BigSize == 65536            \* the 64 KiB request of kernel_main
AddrSpace == 2 ^ AddrBits
MEM_PROT_NONE == 0
MEM_PROT_READ == 1
MEM_PROT_WRITE == 2
MEM_PROT_EXECUTE == 4
MEM_PROT_ALL == 7

KERNEL_END == KernelPages * PAGE_SIZE
PHYS_MEMORY_END == NumFrames * PAGE_SIZE
NoFrame == AddrSpace - 1    \* (uint32_t)-1
NULL == 0
NoUser == "none"            \* a NULL user_t*
Users == {"admin", "guest"} \* the accounts the callers log in with
Callers == 1..NumCallers
THREAD_READY == 0
THREAD_RUNNING == 1
THREAD_BLOCKED == 2
THREAD_DONE == 3
PRIVILEGE_GUEST == 0
PRIVILEGE_USER == 1
PRIVILEGE_ADMIN == 2
PRIVILEGE_KERNEL == 3
MAX_USERNAME_LENGTH == 32
MAX_PASSWORD_LENGTH == 64
HashSeed == 5381            \* initial value of simple_hash
Priorities == {1}           \* the priority the tests pass to create_thread
MaxBalance == SC_MAX_THREADS + 1    \* most load_balance calls in a row

VARIABLES
    page_bitmap,                \* set of frame indices whose bit is set
    next_free_page,             \* the next-free hint
    mm_lock,                    \* 0 free, 1 taken
    memory_regions,             \* sequence of regions; region_count is its length
    memory_protection_enabled,
    current_user,               \* security_state.current_user
    hist,                       \* history: the last two completed calls, oldest first
    alloc_by,                   \* history: frame -> principal of its live allocation
    no_free_yet,                \* history: no free_memory call since initialisation
    probe,                      \* last direct evaluation of validate_memory_access
    pc, c_op, c_arg, c_user, c_frame, c_ret, \* per concurrent caller
    sc_threads,                 \* thread table; sc_thread_count is its length
    sc_run_queue, sc_rq_head, sc_rq_tail,
    sc_cpu_load, sc_cpu_count,
    sc_current_thread,
    sc_slice,                   \* id of the thread whose entry is executing, or -1
    sc_ret,                     \* return value of the last create_thread
    sc_entry,                   \* whether its entry argument was non-null
    steps,                      \* per thread: number of calls of its entry
    target,                     \* slices a worker needs (targets[] of the test)
    driver,                     \* position of the scheduling loop of the test
    ran,                        \* history: per thread, the threads dispatched since its last slice
    lb_skew,                    \* history: the last call other than load_balance
                                \* left every live thread Ready on CPU 0
    lb_run,                     \* history: load_balance calls since then
                                \* (counted past 1 only after such a call)
    is_initialized,             \* security_state.is_initialized
    user_database,              \* the first user_count entries of user_database
    sec_ret,                    \* the last security call and what it returned
    twin,                       \* two schedulers that receive the same calls,
                                \* with priorities of their own
    fs,                         \* the FileSystem the fs_ calls work on
    fs_ret                      \* the last fs_ call and what it returned

mmVars == <<page_bitmap, next_free_page, mm_lock, memory_regions,
            memory_protection_enabled, current_user>>
histVars == <<hist, alloc_by, no_free_yet>>
concVars == <<pc, c_op, c_arg, c_user, c_frame, c_ret>>
schedVars == <<sc_threads, sc_run_queue, sc_rq_head, sc_rq_tail, sc_cpu_load,
               sc_cpu_count, sc_current_thread, sc_slice, sc_ret, sc_entry,
               steps, target, driver, ran, lb_run, lb_skew>>
authVars == <<is_initialized, user_database, sec_ret>>
fsVars == <<fs, fs_ret>>
\* the variables the memory manager does not touch
nonMemVars == <<schedVars, authVars, twin, fsVars>>
\* the variables the scheduler does not touch
nonSchedVars == <<mmVars, histVars, probe, concVars, authVars, twin, fsVars>>
\* the variables the paired schedulers do not touch
nonPairVars == <<mmVars, histVars, probe, concVars, schedVars, authVars, fsVars>>
\* the variables the file system does not touch
nonFsVars == <<mmVars, histVars, probe, concVars, schedVars, authVars, twin>>
\* the variables the security calls do not touch (current_user is theirs)
nonAuthVars == <<page_bitmap, next_free_page, mm_lock, memory_regions,
                 memory_protection_enabled, histVars, probe, concVars,
                 schedVars, twin, fsVars>>
vars == <<page_bitmap, next_free_page, mm_lock, memory_regions,
          memory_protection_enabled, current_user, hist, alloc_by,
          no_free_yet, probe, pc, c_op, c_arg, c_user, c_frame, c_ret,
          sc_threads, sc_run_queue, sc_rq_head, sc_rq_tail, sc_cpu_load,
          sc_cpu_count, sc_current_thread, sc_slice, sc_ret, sc_entry,
          steps, target, driver, ran, lb_run, lb_skew, is_initialized,
          user_database, sec_ret, twin, fs, fs_ret>>

\* ---------------------------------------------------------------- helpers
Min(S) == CHOOSE x \in S : \A y \in S : x <= y

Bit(n, b) == (n \div b) % 2

\* bitwise AND of two 3-bit permission masks
BitAnd(a, b) ==
    Bit(a, 1) * Bit(b, 1) + 2 * Bit(a, 2) * Bit(b, 2) + 4 * Bit(a, 4) * Bit(b, 4)

region_count(regs) == Len(regs)

bitmap_set(bm, bit) == bm \cup {bit}

\* variant: the bit is left set
bitmap_clear_noop(bm, bit) == bm

bitmap_clear(bm, bit) == bm \ {bit}

bitmap_test(bm, bit) == bit \in bm

\* variant: takes the frame at the hint without testing its bit
find_free_page_noscan(bm, hint) ==
    IF hint < NumFrames
    THEN [frame |-> hint, hint |-> hint + 1]
    ELSE [frame |-> NoFrame, hint |-> hint]

\* Linear scan from the hint to the end of the range; no wrap-around.
find_free_page(bm, hint) ==
    LET cand == {i \in hint..(NumFrames - 1) : ~bitmap_test(bm, i)}
    IN IF cand = {}
       THEN [frame |-> NoFrame, hint |-> hint]
       ELSE [frame |-> Min(cand), hint |-> Min(cand) + 1]

register_memory_region(regs, address, size, protection, owner) ==
    IF region_count(regs) >= MAX_MEMORY_REGIONS
    THEN [ok |-> FALSE, regs |-> regs]
    ELSE [ok |-> TRUE,
          regs |-> Append(regs, [base_address |-> address, size |-> size,
                                 protection |-> protection, owner |-> owner,
                                 is_allocated |-> TRUE])]

\* variant: the region stays in the registry
unregister_memory_region_keep(regs, address) == [ok |-> TRUE, regs |-> regs]

\* Removes the first region whose base is address, shifting the rest down.
unregister_memory_region(regs, address) ==
    LET hits == {i \in 1..Len(regs) : regs[i].base_address = address}
    IN IF hits = {}
       THEN [ok |-> FALSE, regs |-> regs]
       ELSE LET i == Min(hits)
            IN [ok |-> TRUE,
                regs |-> [j \in 1..(Len(regs) - 1) |->
                             IF j < i THEN regs[j] ELSE regs[j + 1]]]

\* variant: no ownership test
region_check_unowned(region, access_type, cur) ==
    IF BitAnd(region.protection, access_type) = 0
    THEN [ok |-> FALSE, events |-> <<"PERMISSION_DENIED">>]
    ELSE [ok |-> TRUE, events |-> <<>>]

\* The permission and ownership tests on the covering region: ok, and the
\* category logged on rejection.
region_check(region, access_type, cur) ==
    IF BitAnd(region.protection, access_type) = 0
    THEN [ok |-> FALSE, events |-> <<"PERMISSION_DENIED">>]
    ELSE IF region.owner # NoUser /\ region.owner # cur
    THEN [ok |-> FALSE, events |-> <<"WRONG_OWNER">>]
    ELSE [ok |-> TRUE, events |-> <<>>]

\* variant: an address no region covers is let through
unregistered_allow == [ok |-> TRUE, events |-> <<>>]

\* no region covers the range: deny
unregistered_result == [ok |-> FALSE, events |-> <<"UNREGISTERED_REGION">>]

\* variant: no lower bound on the address
out_of_bounds_high(address, size) == address + size > PHYS_MEMORY_END

\* validate_memory_access: the range must lie in [KERNEL_END, PHYS_MEMORY_END]
out_of_bounds(address, size) ==
    address < KERNEL_END \/ address + size > PHYS_MEMORY_END

validate_memory_access(regs, enabled, cur, address, size, access_type) ==
    IF ~enabled THEN [ok |-> TRUE, events |-> <<>>]
    ELSE IF address = NULL \/ size = 0
    THEN [ok |-> FALSE, events |-> <<"INVALID_ACCESS">>]
    ELSE IF (address + size) % AddrSpace < address
    THEN [ok |-> FALSE, events |-> <<"ADDRESS_OVERFLOW">>]
    ELSE IF out_of_bounds(address, size)
    THEN [ok |-> FALSE, events |-> <<"OUT_OF_BOUNDS">>]
    ELSE IF address % PAGE_SIZE # 0
    THEN [ok |-> FALSE, events |-> <<"MISALIGNED_ACCESS">>]
    ELSE LET covering == {i \in 1..Len(regs) :
                             /\ address >= regs[i].base_address
                             /\ address + size <= regs[i].base_address + regs[i].size}
         IN IF covering = {}
            THEN unregistered_result
            ELSE region_check(regs[Min(covering)], access_type, cur)

\* variant: the hint is never rewound
rewind_hint_never(hint, frame) == hint

\* free_memory: if (frame < next_free_page) next_free_page = frame
rewind_hint(hint, frame) == IF frame < hint THEN frame ELSE hint

\* variant: no test for a current user
allocate_memory_anon(bm, hint, regs, cur, size) ==
    IF size # PAGE_SIZE
    THEN [ret |-> NULL, bm |-> bm, hint |-> hint, regs |-> regs,
          events |-> <<"INVALID_SIZE">>]
    ELSE LET r == find_free_page(bm, hint)
         IN IF r.frame = NoFrame
            THEN [ret |-> NULL, bm |-> bm, hint |-> r.hint, regs |-> regs,
                  events |-> <<"OUT_OF_MEMORY">>]
            ELSE LET bm1 == bitmap_set(bm, r.frame)
                     allocated_address == (r.frame * PAGE_SIZE) % AddrSpace
                     reg == register_memory_region(regs, allocated_address, PAGE_SIZE,
                                BitAnd(MEM_PROT_ALL, MEM_PROT_READ + MEM_PROT_WRITE), cur)
                 IN IF ~reg.ok
                    THEN [ret |-> NULL, bm |-> bitmap_clear(bm1, r.frame),
                          hint |-> r.hint, regs |-> regs,
                          events |-> <<"REGION_REGISTRATION_FAILED">>]
                    ELSE [ret |-> allocated_address, bm |-> bm1, hint |-> r.hint,
                          regs |-> reg.regs, events |-> <<"MEMORY_ALLOCATED">>]

\* ------------------------------------------------- the calls, as functions
\* allocate_memory between sc_lock_acquire and sc_lock_release.
allocate_memory(bm, hint, regs, cur, size) ==
    IF cur = NoUser
    THEN [ret |-> NULL, bm |-> bm, hint |-> hint, regs |-> regs,
          events |-> <<"NO_USER">>]
    ELSE IF size # PAGE_SIZE
    THEN [ret |-> NULL, bm |-> bm, hint |-> hint, regs |-> regs,
          events |-> <<"INVALID_SIZE">>]
    ELSE LET r == find_free_page(bm, hint)
         IN IF r.frame = NoFrame
            THEN [ret |-> NULL, bm |-> bm, hint |-> r.hint, regs |-> regs,
                  events |-> <<"OUT_OF_MEMORY">>]
            ELSE LET bm1 == bitmap_set(bm, r.frame)
                     allocated_address == (r.frame * PAGE_SIZE) % AddrSpace
                     reg == register_memory_region(regs, allocated_address, PAGE_SIZE,
                                BitAnd(MEM_PROT_ALL, MEM_PROT_READ + MEM_PROT_WRITE), cur)
                 IN IF ~reg.ok
                    THEN [ret |-> NULL, bm |-> bitmap_clear(bm1, r.frame),
                          hint |-> r.hint, regs |-> regs,
                          events |-> <<"REGION_REGISTRATION_FAILED">>]
                    ELSE [ret |-> allocated_address, bm |-> bm1, hint |-> r.hint,
                          regs |-> reg.regs, events |-> <<"MEMORY_ALLOCATED">>]

\* free_memory between sc_lock_acquire and sc_lock_release.
free_memory(bm, hint, regs, enabled, cur, ptr) ==
    IF ptr = NULL
    THEN [bm |-> bm, hint |-> hint, regs |-> regs,
          events |-> <<"NULL_POINTER_FREE">>]
    ELSE LET v == validate_memory_access(regs, enabled, cur, ptr, PAGE_SIZE, MEM_PROT_WRITE)
         IN IF ~v.ok
            THEN [bm |-> bm, hint |-> hint, regs |-> regs,
                  events |-> v.events \o <<"INVALID_FREE">>]
            ELSE IF cur = NoUser
            THEN [bm |-> bm, hint |-> hint, regs |-> regs,
                  events |-> <<"NO_USER_FREE">>]
            ELSE LET frame == ptr \div PAGE_SIZE
                 IN IF frame < NumFrames
                    THEN [bm |-> bitmap_clear(bm, frame),
                          hint |-> rewind_hint(hint, frame),
                          regs |-> unregister_memory_region(regs, ptr).regs,
                          events |-> <<"MEMORY_FREED">>]
                    ELSE [bm |-> bm, hint |-> hint, regs |-> regs,
                          events |-> <<"INVALID_FRAME">>]

\* ------------------------------------------------------------- the inputs
AllocSizes == {PAGE_SIZE, BigSize}

\* NULL and every frame address up to one past the range, a misaligned
\* address, and the last page of the address space.
FreePtrs == {f * PAGE_SIZE : f \in 0..NumFrames}
              \cup {KERNEL_END + 1, AddrSpace - PAGE_SIZE}

AccessTypes == 0..MEM_PROT_ALL

\* --------------------------------------------------------------- history
\* hist holds the last call in full and, before it, the call before last if
\* that call allocated or freed a page (any other call leaves only a mark).
Summary(rec) ==
    IF \/ rec.op = "alloc" /\ rec.ret # NULL
       \/ rec.op = "free" /\ rec.events = <<"MEMORY_FREED">>
    THEN rec
    ELSE [op |-> "other", arg |-> 0, user |-> NoUser, ret |-> 0, events |-> <<>>]

Push(h, rec) == IF h = <<>> THEN <<rec>> ELSE <<Summary(h[Len(h)]), rec>>

Last == hist[Len(hist)]

Prev == hist[Len(hist) - 1]

\* ------------------------------------------------------------ the scheduler
\* (src/src/scalability.h)  Thread ids count from 0; thread id is
\* sc_threads[id + 1].  The scheduler state is handled as one record.
SchedState ==
    [threads |-> sc_threads, q |-> sc_run_queue, head |-> sc_rq_head,
     tail |-> sc_rq_tail, load |-> sc_cpu_load, cpus |-> sc_cpu_count,
     cur |-> sc_current_thread]

sc_thread_count(S) == Len(S.threads)

ThreadIds(S) == 0..(sc_thread_count(S) - 1)

get_thread_count(S) ==
    Cardinality({i \in ThreadIds(S) : S.threads[i + 1].state # THREAD_DONE})

get_cpu_load(S, cpu_id) ==
    IF cpu_id < 0 \/ cpu_id >= S.cpus THEN 0 ELSE S.load[cpu_id]

\* The ids in the run queue, from head to tail.
RECURSIVE QueueFrom(_, _)
QueueFrom(S, i) ==
    IF i = S.tail THEN <<>>
    ELSE <<S.q[i]>> \o QueueFrom(S, (i + 1) % SC_MAX_THREADS)

QueueSeq(S) == QueueFrom(S, S.head)

\* variant: a thread of priority above 1 goes to the head of the queue
push_rq_priority(S, id) ==
    LET next == (S.tail + 1) % SC_MAX_THREADS
        front == (S.head + SC_MAX_THREADS - 1) % SC_MAX_THREADS
    IN IF next = S.head
       THEN [ret |-> -1, s |-> S]
       ELSE IF S.threads[id + 1].priority > 1
       THEN [ret |-> 0,
             s |-> [S EXCEPT !.q = [S.q EXCEPT ![front] = id], !.head = front]]
       ELSE [ret |-> 0,
             s |-> [S EXCEPT !.q = [S.q EXCEPT ![S.tail] = id], !.tail = next]]

push_rq(S, id) ==
    LET next == (S.tail + 1) % SC_MAX_THREADS
    IN IF next = S.head
       THEN [ret |-> -1, s |-> S]
       ELSE [ret |-> 0,
             s |-> [S EXCEPT !.q = [S.q EXCEPT ![S.tail] = id], !.tail = next]]

pop_rq(S) ==
    IF S.head = S.tail
    THEN [id |-> -1, s |-> S]
    ELSE [id |-> S.q[S.head],
          s |-> [S EXCEPT !.head = (S.head + 1) % SC_MAX_THREADS]]

\* variant: the last CPU among the least loaded
best_cpu_last(load, cpus) ==
    CHOOSE c \in 0..(cpus - 1) :
        /\ \A d \in 0..(cpus - 1) : load[c] <= load[d]
        /\ \A d \in 0..(cpus - 1) : load[d] = load[c] => d <= c

\* create_thread: the first CPU whose load is the smallest
best_cpu(load, cpus) ==
    CHOOSE c \in 0..(cpus - 1) :
        /\ \A d \in 0..(cpus - 1) : load[c] <= load[d]
        /\ \A d \in 0..(cpus - 1) : load[d] = load[c] => c <= d

\* variant: the table takes one thread more
table_full_late(S) == sc_thread_count(S) > SC_MAX_THREADS

\* create_thread: if (sc_thread_count >= SC_MAX_THREADS) return -1
table_full(S) == sc_thread_count(S) >= SC_MAX_THREADS

\* variant: every thread is assigned to CPU 0
create_thread_first(S, entry, priority) ==
    IF ~entry THEN [ret |-> -1, s |-> S]
    ELSE IF table_full(S) THEN [ret |-> -1, s |-> S]
    ELSE LET cpu == 0
             id == sc_thread_count(S)
             S1 == [S EXCEPT
                      !.threads = Append(S.threads,
                          [id |-> id, cpu_id |-> cpu, priority |-> priority,
                           quota |-> 1, state |-> THREAD_READY, ticks |-> 0]),
                      !.load = [S.load EXCEPT ![cpu] = S.load[cpu] + 1]]
         IN [ret |-> id, s |-> push_rq(S1, id).s]

create_thread(S, entry, priority) ==
    IF ~entry THEN [ret |-> -1, s |-> S]
    ELSE IF table_full(S) THEN [ret |-> -1, s |-> S]
    ELSE LET cpu == best_cpu(S.load, S.cpus)
             id == sc_thread_count(S)
             S1 == [S EXCEPT
                      !.threads = Append(S.threads,
                          [id |-> id, cpu_id |-> cpu, priority |-> priority,
                           quota |-> 1, state |-> THREAD_READY, ticks |-> 0]),
                      !.load = [S.load EXCEPT ![cpu] = S.load[cpu] + 1]]
         IN [ret |-> id, s |-> push_rq(S1, id).s]

\* variant: the yielding thread is marked Blocked
yield_blocked(S) ==
    IF S.cur < 0 THEN S
    ELSE LET id == S.cur
             S1 == [S EXCEPT !.threads[id + 1].state = THREAD_BLOCKED]
         IN [push_rq(S1, id).s EXCEPT !.cur = -1]

yield(S) ==
    IF S.cur < 0 THEN S
    ELSE LET id == S.cur
             S1 == [S EXCEPT !.threads[id + 1].state = THREAD_READY]
         IN [push_rq(S1, id).s EXCEPT !.cur = -1]

\* variant: the load counter is left as it is
complete_current_thread_noload(S) ==
    IF S.cur < 0 THEN S
    ELSE LET id == S.cur
         IN [S EXCEPT !.threads[id + 1].state = THREAD_DONE, !.cur = -1]

complete_current_thread(S) ==
    IF S.cur < 0 THEN S
    ELSE LET id == S.cur
             cpu == S.threads[id + 1].cpu_id
         IN [S EXCEPT !.threads[id + 1].state = THREAD_DONE,
                      !.load = [S.load EXCEPT ![cpu] = S.load[cpu] - 1],
                      !.cur = -1]

\* load_balance: the first CPU of smallest and the first of largest load
\* variant: the scan for the smallest load is missing
min_cpu_zero(load, cpus) == 0

min_cpu(load, cpus) ==
    CHOOSE c \in 0..(cpus - 1) :
        /\ \A d \in 0..(cpus - 1) : load[c] <= load[d]
        /\ \A d \in 0..(cpus - 1) : load[d] = load[c] => c <= d

max_cpu(load, cpus) ==
    CHOOSE c \in 0..(cpus - 1) :
        /\ \A d \in 0..(cpus - 1) : load[c] >= load[d]
        /\ \A d \in 0..(cpus - 1) : load[d] = load[c] => c <= d

\* variant: migrates whenever the loads differ
balanced_never(load, cpus) ==
    load[max_cpu(load, cpus)] - load[min_cpu(load, cpus)] <= 0

\* load_balance: if (sc_cpu_load[max_cpu] - sc_cpu_load[min_cpu] <= 1) return
balanced(load, cpus) ==
    load[max_cpu(load, cpus)] - load[min_cpu(load, cpus)] <= 1

\* variant: the counter of the fullest CPU is not decremented
load_balance_leak(S) ==
    LET lo == min_cpu(S.load, S.cpus)
        hi == max_cpu(S.load, S.cpus)
        movable == {i \in ThreadIds(S) :
                       /\ S.threads[i + 1].state = THREAD_READY
                       /\ S.threads[i + 1].cpu_id = hi}
    IN IF balanced(S.load, S.cpus) \/ movable = {} THEN S
       ELSE LET i == Min(movable)
            IN [S EXCEPT !.threads[i + 1].cpu_id = lo,
                         !.load = [S.load EXCEPT ![lo] = S.load[lo] + 1]]

load_balance(S) ==
    LET lo == min_cpu(S.load, S.cpus)
        hi == max_cpu(S.load, S.cpus)
        movable == {i \in ThreadIds(S) :
                       /\ S.threads[i + 1].state = THREAD_READY
                       /\ S.threads[i + 1].cpu_id = hi}
    IN IF balanced(S.load, S.cpus) \/ movable = {} THEN S
       ELSE LET i == Min(movable)
            IN [S EXCEPT !.threads[i + 1].cpu_id = lo,
                         !.load = [S.load EXCEPT ![hi] = S.load[hi] - 1,
                                                 ![lo] = S.load[lo] + 1]]

\* schedule_process up to the call of the thread's entry
schedule_process_dispatch(S) ==
    LET p == pop_rq(S)
        id == p.id
    IN IF id < 0 THEN [id |-> -1, s |-> S]
       ELSE IF p.s.threads[id + 1].state # THREAD_READY
       THEN [id |-> -1, s |-> push_rq(p.s, id).s]
       ELSE [id |-> id,
             s |-> [p.s EXCEPT !.threads[id + 1].state = THREAD_RUNNING,
                               !.cur = id]]

\* variant: the thread is re-enqueued whatever its entry did
schedule_process_return_always(S, id) ==
    LET S1 == [S EXCEPT
                 !.threads[id + 1].ticks = S.threads[id + 1].ticks + 1,
                 !.threads[id + 1].state = THREAD_READY]
    IN [push_rq(S1, id).s EXCEPT !.cur = -1]

\* schedule_process after the entry has returned
schedule_process_return(S, id) ==
    IF S.cur = id
    THEN LET S1 == [S EXCEPT
                      !.threads[id + 1].ticks = S.threads[id + 1].ticks + 1,
                      !.threads[id + 1].state = THREAD_READY]
         IN [push_rq(S1, id).s EXCEPT !.cur = -1]
    ELSE S

\* ----------------------------------------------- one scheduler with its entries
\* A run is a scheduler state s together with the entry of each thread, the
\* steps counter of the test's worker, and what the last call returned or
\* dispatched.
NoEntry == "null"                   \* create_thread(NULL, ...)

\* worker: the worker of the test, with target MaxSlices;
\* plain: a function that returns without calling yield or complete_current_thread
Closures == {"worker", "plain"}

\* The scheduler after init_scheduler(cpus), as a record.
scheduler_after_init(cpus) ==
    [threads |-> <<>>,
     q |-> [i \in 0..(SC_MAX_THREADS - 1) |-> 0],
     head |-> 0, tail |-> 0,
     load |-> [c \in 0..(SC_MAX_CPUS - 1) |-> 0],
     cpus |-> (IF cpus < 1 THEN 1 ELSE IF cpus > SC_MAX_CPUS THEN SC_MAX_CPUS ELSE cpus),
     cur |-> -1]

run_after_init(cpus) ==
    [s |-> scheduler_after_init(cpus), entries |-> <<>>, steps |-> <<>>,
     out |-> -1]

run_create_thread(R, entry, priority) ==
    LET r == create_thread(R.s, entry # NoEntry, priority)
    IN IF r.ret < 0 THEN [R EXCEPT !.s = r.s, !.out = -1]
       ELSE [s |-> r.s, entries |-> Append(R.entries, entry),
             steps |-> Append(R.steps, 0), out |-> r.ret]

\* the entry of thread id runs
run_entry(R, id) ==
    IF R.entries[id + 1] = "worker"
    THEN LET n == R.steps[id + 1] + 1
         IN [R EXCEPT !.steps[id + 1] = n,
                      !.s = IF n >= MaxSlices
                            THEN complete_current_thread(R.s)
                            ELSE yield(R.s)]
    ELSE R

\* one whole call of schedule_process
schedule_process(R) ==
    LET d == schedule_process_dispatch(R.s)
    IN IF d.id < 0 THEN [R EXCEPT !.s = d.s, !.out = -1]
       ELSE LET R1 == run_entry([R EXCEPT !.s = d.s], d.id)
            IN [R1 EXCEPT !.s = schedule_process_return(R1.s, d.id),
                          !.out = d.id]

run_load_balance(R) == [R EXCEPT !.s = load_balance(R.s), !.out = -1]

\* State after init_scheduler(cpus).
init_scheduler(cpus) ==
    /\ sc_cpu_count = (IF cpus < 1 THEN 1 ELSE IF cpus > SC_MAX_CPUS THEN SC_MAX_CPUS ELSE cpus)
    /\ sc_cpu_load = [c \in 0..(SC_MAX_CPUS - 1) |-> 0]
    /\ sc_threads = <<>>
    /\ sc_run_queue = [i \in 0..(SC_MAX_THREADS - 1) |-> 0]
    /\ sc_rq_head = 0
    /\ sc_rq_tail = 0
    /\ sc_current_thread = -1

\* No slice in progress, nothing recorded yet.
SchedHistInit ==
    /\ sc_slice = -1
    /\ sc_ret = -1
    /\ sc_entry = FALSE
    /\ steps = [i \in 0..(SC_MAX_THREADS - 1) |-> 0]
    /\ driver = "none"
    /\ ran = [i \in 0..(SC_MAX_THREADS - 1) |->
                 [j \in 0..(SC_MAX_THREADS - 1) |-> 0]]
    /\ lb_run = 0
    /\ lb_skew = FALSE

\* ------------------------------------------------------- users and log-in
\* (src/iso/src/security.c)  User names are strings, passwords are sequences
\* of character codes.  Session ids and the security log are left out.
Names == {"admin", "guest", "root"}

strlen(name) == IF name = "root" THEN 4 ELSE 5

admin123 == <<97, 100, 109, 105, 110, 49, 50, 51>>

guest_pw == <<103, 117, 101, 115, 116>>

wrong_password == <<119, 114, 111, 110, 103>>

Passwords == {admin123, guest_pw, wrong_password}

Privileges == {PRIVILEGE_GUEST, PRIVILEGE_ADMIN}

\* djb2: hash = hash * 33 + c for every character, in HashBits bits
RECURSIVE hash_from(_, _)
hash_from(hash, str) ==
    IF str = <<>> THEN hash
    ELSE hash_from((hash * 33 + Head(str)) % (2 ^ HashBits), Tail(str))

simple_hash(str) == hash_from(HashSeed, str)

\* index of the first active entry with that name, 0 if there is none
find_user_by_username(db, username) ==
    LET hits == {i \in 1..Len(db) :
                    db[i].is_active /\ db[i].username = username}
    IN IF hits = {} THEN 0 ELSE Min(hits)

validate_user_credentials(user, password) ==
    user.password_hash = simple_hash(password)

\* security_create_user: if (!security_state.is_initialized) return false
create_refused(inited) == ~inited

security_create_user(inited, db, username, password, privilege) ==
    IF create_refused(inited) THEN [ok |-> FALSE, db |-> db]
    ELSE IF strlen(username) >= MAX_USERNAME_LENGTH
            \/ Len(password) >= MAX_PASSWORD_LENGTH
    THEN [ok |-> FALSE, db |-> db]
    ELSE IF Len(db) >= MAX_USERS THEN [ok |-> FALSE, db |-> db]
    ELSE IF find_user_by_username(db, username) # 0
    THEN [ok |-> FALSE, db |-> db]
    ELSE [ok |-> TRUE,
          db |-> Append(db, [username |-> username,
                             password_hash |-> simple_hash(password),
                             privilege |-> privilege,
                             is_active |-> TRUE])]

\* security_init: an initialised system is left alone; otherwise the database
\* is cleared, the two default accounts are requested, and only then is
\* is_initialized set.
security_init(inited, db) ==
    IF inited THEN [ok |-> TRUE, inited |-> TRUE, db |-> db]
    ELSE LET db1 == security_create_user(inited, <<>>, "admin", admin123,
                                         PRIVILEGE_ADMIN).db
             db2 == security_create_user(inited, db1, "guest", guest_pw,
                                         PRIVILEGE_GUEST).db
         IN [ok |-> TRUE, inited |-> TRUE, db |-> db2]

security_authenticate_user(inited, db, cur, username, password) ==
    IF ~inited THEN [ok |-> FALSE, cur |-> cur]
    ELSE LET i == find_user_by_username(db, username)
         IN IF i = 0 THEN [ok |-> FALSE, cur |-> cur]
            ELSE IF validate_user_credentials(db[i], password)
            THEN [ok |-> TRUE, cur |-> username]
            ELSE [ok |-> FALSE, cur |-> cur]

\* security_logout_user(security_get_current_user())
security_logout_user(inited, cur) ==
    IF cur = NoUser \/ ~inited
    THEN [ok |-> FALSE, cur |-> cur]
    ELSE [ok |-> TRUE, cur |-> NoUser]

\* An initialised security subsystem in which the accounts of Users have been
\* created with security_create_user.
AuthReady ==
    /\ is_initialized = TRUE
    /\ user_database =
          <<[username |-> "admin", password_hash |-> simple_hash(admin123),
             privilege |-> PRIVILEGE_ADMIN, is_active |-> TRUE],
            [username |-> "guest", password_hash |-> simple_hash(guest_pw),
             privilege |-> PRIVILEGE_GUEST, is_active |-> TRUE]>>
    /\ sec_ret = [op |-> "create", ok |-> TRUE]

\* ------------------------------------------------------ the violation counter
\* security_state.security_violations_logged after security_log_security_violation
security_log_security_violation(violations_logged) == violations_logged + 1

\* log_memory_security_event builds the detail string and forwards every
\* event, whatever its name, to security_log_security_violation
log_memory_security_event(violations_logged, event) ==
    security_log_security_violation(violations_logged)

\* the counter after the events of one allocate_memory or free_memory call
RECURSIVE violations_after(_, _)
violations_after(violations_logged, events) ==
    IF events = <<>> THEN violations_logged
    ELSE violations_after(
             log_memory_security_event(violations_logged, Head(events)),
             Tail(events))

\* ---------------------------------------------------------- the file system
\* (src/iso/src/file_system.c, src/src/file_system.h)  A FileSystem is a
\* record; blocks holds the first block_count entries of File.blocks, and
\* data_blocks holds, per block, the data last written to it.
BLOCK_SIZE == 512
MAX_FILENAME_LENGTH == 32
FILE_TYPE_FILE == 0
FILE_TYPE_DIRECTORY == 1
FS_SUCCESS == 0
FS_ERROR_NO_SPACE == -5
ERR_SUCCESS == 0
ERR_NULL_POINTER == -1
ERR_FILE_NOT_FOUND == -20
ERR_FILE_EXISTS == -21
ERR_FILE_TOO_LARGE == -22
ERR_NOT_A_DIRECTORY == -27
ERR_FILE_NAME_TOO_LONG == -29
ERR_INVALID_FILE_HANDLE == -31
ERR_NOT_A_FILE == -32
ERR_INVALID_DIRECTORY == -33
ERR_DIRECTORY_NOT_EMPTY == -34
ERR_FILE_SYSTEM_FULL == -35
ERR_OUT_OF_SPACE == -36

FsEntries == MAX_FILES_PER_DIR * 2      \* entries of FileSystem.files
LongName == "a-file-name-of-32-characters...."
FileNames == {"a", "b", LongName}
filename_length(name) ==
    IF name = LongName THEN 32 ELSE IF name = "" THEN 0 ELSE 1
NoData == "null"                        \* a NULL data pointer
NoBytes == "zero"                       \* a block never written
FsData == {"x"}                         \* what a write may carry

\* a File after memset(file, 0, sizeof(File))
ZeroFile ==
    [name |-> "", size |-> 0, type |-> 0, blocks |-> <<>>, block_count |-> 0,
     parent_dir |-> 0, used |-> 0]

find_free_entry(F) ==
    LET free == {i \in 0..(FsEntries - 1) : F.files[i].used = 0}
    IN IF free = {} THEN -1 ELSE Min(free)

allocate_blocks(F, block_count) ==
    IF F.next_free_block + block_count > F.total_blocks
    THEN [ret |-> FS_ERROR_NO_SPACE, blocks |-> <<>>, fs |-> F]
    ELSE [ret |-> FS_SUCCESS,
          blocks |-> [i \in 1..block_count |-> F.next_free_block + i - 1],
          fs |-> [F EXCEPT !.next_free_block = @ + block_count]]

free_blocks(F, blocks, block_count) ==
    IF block_count > 0 /\ blocks[block_count] + 1 = F.next_free_block
    THEN [F EXCEPT !.next_free_block = blocks[1]]
    ELSE F

\* the checks of parent_dir that fs_create_file, fs_create_directory and
\* fs_find_file share; ERR_SUCCESS if it passes
check_parent_dir(F, parent_dir) ==
    IF parent_dir = 0 THEN ERR_SUCCESS
    ELSE IF parent_dir >= FsEntries \/ F.files[parent_dir].used = 0
    THEN ERR_INVALID_DIRECTORY
    ELSE IF F.files[parent_dir].type # FILE_TYPE_DIRECTORY
    THEN ERR_NOT_A_DIRECTORY
    ELSE ERR_SUCCESS

fs_find_file(F, name, parent_dir) ==
    IF check_parent_dir(F, parent_dir) # ERR_SUCCESS
    THEN check_parent_dir(F, parent_dir)
    ELSE LET found == {i \in 0..(FsEntries - 1) :
                          /\ F.files[i].used # 0
                          /\ F.files[i].parent_dir = parent_dir
                          /\ F.files[i].name = name}
         IN IF found = {} THEN ERR_FILE_NOT_FOUND ELSE Min(found)

\* fs_create_file and fs_create_directory differ in the type they store
create_entry(F, name, parent_dir, type) ==
    IF filename_length(name) >= MAX_FILENAME_LENGTH
    THEN [ret |-> ERR_FILE_NAME_TOO_LONG, fs |-> F]
    ELSE IF check_parent_dir(F, parent_dir) # ERR_SUCCESS
    THEN [ret |-> check_parent_dir(F, parent_dir), fs |-> F]
    ELSE IF fs_find_file(F, name, parent_dir) >= 0
    THEN [ret |-> ERR_FILE_EXISTS, fs |-> F]
    ELSE IF find_free_entry(F) < 0
    THEN [ret |-> ERR_FILE_SYSTEM_FULL, fs |-> F]
    ELSE LET entry_index == find_free_entry(F)
         IN [ret |-> entry_index,
             fs |-> [F EXCEPT
                       !.files[entry_index] =
                           [ZeroFile EXCEPT !.name = name, !.type = type,
                                            !.parent_dir = parent_dir,
                                            !.used = 1],
                       !.file_count = @ + 1]]

fs_create_file(F, name, parent_dir) ==
    create_entry(F, name, parent_dir, FILE_TYPE_FILE)

fs_create_directory(F, name, parent_dir) ==
    create_entry(F, name, parent_dir, FILE_TYPE_DIRECTORY)

\* The FileSystem after fs_init(fs, data_memory, memory_size) has succeeded.
fs_init(memory_size) ==
    fs_create_directory(
        [files |-> [i \in 0..(FsEntries - 1) |-> ZeroFile],
         file_count |-> 0,
         next_free_block |-> 0,
         data_blocks |-> [b \in 0..((memory_size \div BLOCK_SIZE) - 1) |-> NoBytes],
         total_blocks |-> memory_size \div BLOCK_SIZE],
        "/", 0).fs

\* the block-by-block copy of fs_write_file
write_blocks(F, file, data, size, offset) ==
    LET first == offset \div BLOCK_SIZE
        last == (offset + size - 1) \div BLOCK_SIZE
        touched == {file.blocks[k + 1] : k \in first..last}
    IN [b \in DOMAIN F.data_blocks |->
           IF b \in touched THEN data ELSE F.data_blocks[b]]

fs_write_file(F, file_index, data, size, offset) ==
    IF data = NoData THEN [ret |-> ERR_NULL_POINTER, fs |-> F]
    ELSE IF size = 0 THEN [ret |-> 0, fs |-> F]
    ELSE IF file_index >= FsEntries \/ F.files[file_index].used = 0
    THEN [ret |-> ERR_INVALID_FILE_HANDLE, fs |-> F]
    ELSE IF F.files[file_index].type # FILE_TYPE_FILE
    THEN [ret |-> ERR_NOT_A_FILE, fs |-> F]
    ELSE LET file == F.files[file_index]
             required_size == offset + size
             required_blocks == (required_size + BLOCK_SIZE - 1) \div BLOCK_SIZE
         IN IF required_blocks > MAX_BLOCKS_PER_FILE
            THEN [ret |-> ERR_FILE_TOO_LARGE, fs |-> F]
            ELSE LET a == IF required_blocks > file.block_count
                          THEN allocate_blocks(F, required_blocks - file.block_count)
                          ELSE [ret |-> FS_SUCCESS, blocks |-> <<>>, fs |-> F]
                     grown == [file EXCEPT
                                 !.blocks = @ \o a.blocks,
                                 !.block_count = @ + Len(a.blocks)]
                 IN IF a.ret # FS_SUCCESS
                    THEN [ret |-> ERR_OUT_OF_SPACE, fs |-> F]
                    ELSE [ret |-> size,
                          fs |-> [a.fs EXCEPT
                                    !.files[file_index] =
                                        [grown EXCEPT
                                           !.size = IF offset + size > @
                                                    THEN offset + size ELSE @],
                                    !.data_blocks =
                                        write_blocks(a.fs, grown, data, size, offset)]]

fs_delete(F, file_index) ==
    IF file_index >= FsEntries \/ F.files[file_index].used = 0
    THEN [ret |-> ERR_INVALID_FILE_HANDLE, fs |-> F]
    ELSE LET file == F.files[file_index]
         IN IF /\ file.type = FILE_TYPE_DIRECTORY
               /\ \E i \in 0..(FsEntries - 1) :
                     F.files[i].used # 0 /\ F.files[i].parent_dir = file_index
            THEN [ret |-> ERR_DIRECTORY_NOT_EMPTY, fs |-> F]
            ELSE [ret |-> ERR_SUCCESS,
                  fs |-> [free_blocks(F, file.blocks, file.block_count) EXCEPT
                            !.files[file_index].used = 0,
                            !.file_count = @ - 1]]

\* The file system after fs_init over TotalBlocks blocks of memory.
FsReady ==
    /\ fs = fs_init(TotalBlocks * BLOCK_SIZE)
    /\ fs_ret = [op |-> "fs_init", ret |-> ERR_SUCCESS]

\* Two schedulers after init_scheduler(1), nothing called yet.
PairIdle == twin = [a |-> run_after_init(1), b |-> run_after_init(1)]

\* -------------------------------------------------------------- the state
\* State after security_init and init_memory_management.
init_memory_management ==
    /\ page_bitmap = 0..(KernelPages - 1)
    /\ next_free_page = KernelPages
    /\ memory_regions =
           register_memory_region(<<>>, 0, KERNEL_END,
               MEM_PROT_READ + MEM_PROT_WRITE + MEM_PROT_EXECUTE, NoUser).regs
    /\ memory_protection_enabled = TRUE
    /\ mm_lock = 0

MemoryInit ==
    /\ init_memory_management
    /\ current_user = NoUser
    /\ hist = <<>>
    /\ alloc_by = [f \in 0..(NumFrames - 1) |-> NoUser]
    /\ no_free_yet = TRUE
    /\ probe = [address |-> NULL, access_type |-> 0, ok |-> FALSE,
                events |-> <<>>, protection |-> 0, covered |-> FALSE]
    /\ pc = [p \in Callers |-> "idle"]
    /\ c_op = [p \in Callers |-> "none"]
    /\ c_arg = [p \in Callers |-> 0]
    /\ c_user = [p \in Callers |-> NoUser]
    /\ c_frame = [p \in Callers |-> NoFrame]
    /\ c_ret = [p \in Callers |-> NULL]

\* The scheduler as its static initialisers leave it (one CPU, no thread).
SchedIdle ==
    /\ init_scheduler(1)
    /\ SchedHistInit
    /\ target = MaxSlices

Init ==
    /\ MemoryInit
    /\ SchedIdle
    /\ AuthReady
    /\ PairIdle
    /\ FsReady

\* ------------------------------------------- one call at a time (Spec)
\* security_authenticate_user with valid credentials of u.
Login(u) ==
    /\ current_user' = u
    /\ hist' = Push(hist, [op |-> "login", arg |-> 0, user |-> u,
                           ret |-> 1, events |-> <<>>])
    /\ UNCHANGED <<page_bitmap, next_free_page, mm_lock, memory_regions,
                   memory_protection_enabled, alloc_by, no_free_yet, probe>>
    /\ UNCHANGED concVars
    /\ UNCHANGED nonMemVars

\* security_logout_user(u)
Logout(u) ==
    /\ current_user' = IF current_user = u THEN NoUser ELSE current_user
    /\ hist' = Push(hist, [op |-> "logout", arg |-> 0, user |-> u,
                           ret |-> 1, events |-> <<>>])
    /\ UNCHANGED <<page_bitmap, next_free_page, mm_lock, memory_regions,
                   memory_protection_enabled, alloc_by, no_free_yet, probe>>
    /\ UNCHANGED concVars
    /\ UNCHANGED nonMemVars

AllocateMemory(size) ==
    /\ mm_lock = 0                      \* sc_lock_acquire returns
    /\ LET r == allocate_memory(page_bitmap, next_free_page, memory_regions,
                                current_user, size)
       IN /\ page_bitmap' = r.bm
          /\ next_free_page' = r.hint
          /\ memory_regions' = r.regs
          /\ hist' = Push(hist, [op |-> "alloc", arg |-> size, user |-> current_user,
                                 ret |-> r.ret, events |-> r.events])
          /\ alloc_by' = IF r.ret # NULL
                         THEN [alloc_by EXCEPT ![r.ret \div PAGE_SIZE] = current_user]
                         ELSE alloc_by
    /\ mm_lock' = 0                     \* sc_lock_release on every path
    /\ UNCHANGED <<memory_protection_enabled, current_user, no_free_yet, probe>>
    /\ UNCHANGED concVars
    /\ UNCHANGED nonMemVars

FreeMemory(ptr) ==
    /\ mm_lock = 0
    /\ LET r == free_memory(page_bitmap, next_free_page, memory_regions,
                            memory_protection_enabled, current_user, ptr)
       IN /\ page_bitmap' = r.bm
          /\ next_free_page' = r.hint
          /\ memory_regions' = r.regs
          /\ hist' = Push(hist, [op |-> "free", arg |-> ptr, user |-> current_user,
                                 ret |-> 0, events |-> r.events])
          /\ alloc_by' = IF r.events = <<"MEMORY_FREED">>
                         THEN [alloc_by EXCEPT ![ptr \div PAGE_SIZE] = NoUser]
                         ELSE alloc_by
    /\ mm_lock' = 0
    /\ no_free_yet' = FALSE
    /\ UNCHANGED <<memory_protection_enabled, current_user, probe>>
    /\ UNCHANGED concVars
    /\ UNCHANGED nonMemVars

Next ==
    \/ \E u \in Users : Login(u)
    \/ \E u \in Users : Logout(u)
    \/ \E size \in AllocSizes : AllocateMemory(size)
    \/ \E ptr \in FreePtrs : FreeMemory(ptr)

Spec == Init /\ [][Next]_vars

TypeOK ==
    /\ page_bitmap \subseteq 0..(NumFrames - 1)
    /\ next_free_page \in 0..NumFrames
    /\ mm_lock \in {0, 1}
    /\ Len(memory_regions) <= MAX_MEMORY_REGIONS
    /\ current_user \in Users \cup {NoUser}
    /\ Len(hist) <= 2

\* ------------------------- direct evaluation of the validator (SpecValidate)
\* validate_memory_access(address, PAGE_SIZE, access_type) in the current
\* state, for any access mask; the run ends with the evaluation.
ValidateProbe(address, access_type) ==
    /\ probe.address = NULL
    /\ LET v == validate_memory_access(memory_regions, memory_protection_enabled,
                    current_user, address, PAGE_SIZE, access_type)
           covering == {i \in 1..Len(memory_regions) :
                           /\ address >= memory_regions[i].base_address
                           /\ address + PAGE_SIZE <=
                                  memory_regions[i].base_address + memory_regions[i].size}
       IN probe' = [address |-> address, access_type |-> access_type,
                    ok |-> v.ok, events |-> v.events,
                    protection |-> IF covering = {} THEN 0
                                   ELSE memory_regions[Min(covering)].protection,
                    covered |-> covering # {}]
    /\ UNCHANGED <<page_bitmap, next_free_page, mm_lock, memory_regions,
                   memory_protection_enabled, current_user, hist, alloc_by,
                   no_free_yet>>
    /\ UNCHANGED concVars
    /\ UNCHANGED nonMemVars

NextValidate ==
    \/ probe.address = NULL /\ Next
    \/ \E address \in FreePtrs \ {NULL} : \E access_type \in AccessTypes :
           ValidateProbe(address, access_type)

SpecValidate == Init /\ [][NextValidate]_vars

\* --------------------------------------- concurrent callers (SpecConc)
\* Each caller runs allocate_memory or free_memory statement by statement.
ConcFreePtrs == {f * PAGE_SIZE : f \in KernelPages..(NumFrames - 1)}

InitConc ==
    /\ init_memory_management
    /\ current_user = "admin"           \* admin has logged in
    /\ hist = <<>>
    /\ alloc_by = [f \in 0..(NumFrames - 1) |-> NoUser]
    /\ no_free_yet = TRUE
    /\ probe = [address |-> NULL, access_type |-> 0, ok |-> FALSE,
                events |-> <<>>, protection |-> 0, covered |-> FALSE]
    /\ pc = [p \in Callers |-> "idle"]
    /\ c_op = [p \in Callers |-> "none"]
    /\ c_arg = [p \in Callers |-> 0]
    /\ c_user = [p \in Callers |-> NoUser]
    /\ c_frame = [p \in Callers |-> NoFrame]
    /\ c_ret = [p \in Callers |-> NULL]
    /\ SchedIdle
    /\ PairIdle
    /\ FsReady
    /\ AuthReady

Goto(p, label) == pc' = [pc EXCEPT ![p] = label]

\* a caller enters allocate_memory(arg) or free_memory(arg)
Call(p, op, arg) ==
    /\ pc[p] = "idle"
    /\ Goto(p, "acquire_test")
    /\ c_op' = [c_op EXCEPT ![p] = op]
    /\ c_arg' = [c_arg EXCEPT ![p] = arg]
    /\ c_frame' = [c_frame EXCEPT ![p] = NoFrame]
    /\ c_ret' = [c_ret EXCEPT ![p] = NULL]
    /\ UNCHANGED <<c_user, probe>>
    /\ UNCHANGED mmVars
    /\ UNCHANGED histVars
    /\ UNCHANGED nonMemVars

\* sc_lock_acquire: while (*lock) {} sees the lock free
sc_lock_acquire_test(p) ==
    /\ pc[p] = "acquire_test"
    /\ mm_lock = 0
    /\ Goto(p, "acquire_set")
    /\ UNCHANGED <<c_op, c_arg, c_user, c_frame, c_ret, probe>>
    /\ UNCHANGED mmVars
    /\ UNCHANGED histVars
    /\ UNCHANGED nonMemVars

\* sc_lock_acquire: *lock = 1
sc_lock_acquire_set(p) ==
    /\ pc[p] = "acquire_set"
    /\ mm_lock' = 1
    /\ Goto(p, "body")
    /\ UNCHANGED <<page_bitmap, next_free_page, memory_regions,
                   memory_protection_enabled, current_user>>
    /\ UNCHANGED <<c_op, c_arg, c_user, c_frame, c_ret, probe>>
    /\ UNCHANGED histVars
    /\ UNCHANGED nonMemVars

\* allocate_memory: the current-user and size checks
AllocCheck(p) ==
    /\ pc[p] = "body" /\ c_op[p] = "alloc"
    /\ c_user' = [c_user EXCEPT ![p] = current_user]
    /\ IF current_user = NoUser \/ c_arg[p] # PAGE_SIZE
       THEN Goto(p, "release")
       ELSE Goto(p, "find")
    /\ UNCHANGED <<c_op, c_arg, c_frame, c_ret, probe>>
    /\ UNCHANGED mmVars
    /\ UNCHANGED histVars
    /\ UNCHANGED nonMemVars

\* allocate_memory: frame = find_free_page()
AllocFind(p) ==
    /\ pc[p] = "find"
    /\ LET r == find_free_page(page_bitmap, next_free_page)
       IN /\ next_free_page' = r.hint
          /\ c_frame' = [c_frame EXCEPT ![p] = r.frame]
          /\ IF r.frame = NoFrame THEN Goto(p, "release") ELSE Goto(p, "set")
    /\ UNCHANGED <<page_bitmap, mm_lock, memory_regions,
                   memory_protection_enabled, current_user>>
    /\ UNCHANGED <<c_op, c_arg, c_user, c_ret, probe>>
    /\ UNCHANGED histVars
    /\ UNCHANGED nonMemVars

\* allocate_memory: bitmap_set(frame)
AllocSet(p) ==
    /\ pc[p] = "set"
    /\ page_bitmap' = bitmap_set(page_bitmap, c_frame[p])
    /\ Goto(p, "register")
    /\ UNCHANGED <<next_free_page, mm_lock, memory_regions,
                   memory_protection_enabled, current_user>>
    /\ UNCHANGED <<c_op, c_arg, c_user, c_frame, c_ret, probe>>
    /\ UNCHANGED histVars
    /\ UNCHANGED nonMemVars

\* allocate_memory: register the region, or roll the frame back
AllocRegister(p) ==
    /\ pc[p] = "register"
    /\ LET allocated_address == (c_frame[p] * PAGE_SIZE) % AddrSpace
           reg == register_memory_region(memory_regions, allocated_address, PAGE_SIZE,
                      BitAnd(MEM_PROT_ALL, MEM_PROT_READ + MEM_PROT_WRITE), c_user[p])
       IN IF reg.ok
          THEN /\ memory_regions' = reg.regs
               /\ c_ret' = [c_ret EXCEPT ![p] = allocated_address]
               /\ UNCHANGED page_bitmap
          ELSE /\ page_bitmap' = bitmap_clear(page_bitmap, c_frame[p])
               /\ UNCHANGED <<memory_regions, c_ret>>
    /\ Goto(p, "release")
    /\ UNCHANGED <<next_free_page, mm_lock, memory_protection_enabled, current_user>>
    /\ UNCHANGED <<c_op, c_arg, c_user, c_frame, probe>>
    /\ UNCHANGED histVars
    /\ UNCHANGED nonMemVars

\* free_memory: the null, validation, current-user and frame-range checks
FreeCheck(p) ==
    /\ pc[p] = "body" /\ c_op[p] = "free"
    /\ c_user' = [c_user EXCEPT ![p] = current_user]
    /\ IF \/ c_arg[p] = NULL
          \/ ~validate_memory_access(memory_regions, memory_protection_enabled,
                  current_user, c_arg[p], PAGE_SIZE, MEM_PROT_WRITE).ok
          \/ current_user = NoUser
          \/ c_arg[p] \div PAGE_SIZE >= NumFrames
       THEN Goto(p, "release")
       ELSE Goto(p, "clear")
    /\ UNCHANGED <<c_op, c_arg, c_frame, c_ret, probe>>
    /\ UNCHANGED mmVars
    /\ UNCHANGED histVars
    /\ UNCHANGED nonMemVars

\* free_memory: bitmap_clear(frame) and the rewind of the hint
FreeClear(p) ==
    /\ pc[p] = "clear"
    /\ LET frame == c_arg[p] \div PAGE_SIZE
       IN /\ page_bitmap' = bitmap_clear(page_bitmap, frame)
          /\ next_free_page' = rewind_hint(next_free_page, frame)
    /\ Goto(p, "unregister")
    /\ UNCHANGED <<mm_lock, memory_regions, memory_protection_enabled, current_user>>
    /\ UNCHANGED <<c_op, c_arg, c_user, c_frame, c_ret, probe>>
    /\ UNCHANGED histVars
    /\ UNCHANGED nonMemVars

\* free_memory: unregister_memory_region(ptr)
FreeUnregister(p) ==
    /\ pc[p] = "unregister"
    /\ memory_regions' = unregister_memory_region(memory_regions, c_arg[p]).regs
    /\ Goto(p, "release")
    /\ UNCHANGED <<page_bitmap, next_free_page, mm_lock,
                   memory_protection_enabled, current_user>>
    /\ UNCHANGED <<c_op, c_arg, c_user, c_frame, c_ret, probe>>
    /\ UNCHANGED histVars
    /\ UNCHANGED nonMemVars

\* variant: the call returns with the lock still taken
sc_lock_release_held(p) ==
    /\ pc[p] = "release"
    /\ Goto(p, "idle")
    /\ c_op' = [c_op EXCEPT ![p] = "none"]
    /\ c_arg' = [c_arg EXCEPT ![p] = 0]
    /\ c_user' = [c_user EXCEPT ![p] = NoUser]
    /\ c_frame' = [c_frame EXCEPT ![p] = NoFrame]
    /\ UNCHANGED <<page_bitmap, next_free_page, mm_lock, memory_regions,
                   memory_protection_enabled, current_user>>
    /\ UNCHANGED <<c_ret, probe>>
    /\ UNCHANGED histVars
    /\ UNCHANGED nonMemVars

\* sc_lock_release: *lock = 0, and the call returns
sc_lock_release(p) ==
    /\ pc[p] = "release"
    /\ mm_lock' = 0
    /\ Goto(p, "idle")
    /\ c_op' = [c_op EXCEPT ![p] = "none"]       \* the locals go out of scope
    /\ c_arg' = [c_arg EXCEPT ![p] = 0]
    /\ c_user' = [c_user EXCEPT ![p] = NoUser]
    /\ c_frame' = [c_frame EXCEPT ![p] = NoFrame]
    /\ UNCHANGED <<page_bitmap, next_free_page, memory_regions,
                   memory_protection_enabled, current_user>>
    /\ UNCHANGED <<c_ret, probe>>
    /\ UNCHANGED histVars
    /\ UNCHANGED nonMemVars

NextConc ==
    \E p \in Callers :
        \/ Call(p, "alloc", PAGE_SIZE)
        \/ \E ptr \in ConcFreePtrs : Call(p, "free", ptr)
        \/ sc_lock_acquire_test(p)
        \/ sc_lock_acquire_set(p)
        \/ AllocCheck(p)
        \/ AllocFind(p)
        \/ AllocSet(p)
        \/ AllocRegister(p)
        \/ FreeCheck(p)
        \/ FreeClear(p)
        \/ FreeUnregister(p)
        \/ sc_lock_release(p)

SpecConc == InitConc /\ [][NextConc]_vars

\* caller p is between sc_lock_acquire returning and sc_lock_release
Holding(p) ==
    pc[p] \in {"body", "find", "set", "register", "clear", "unregister", "release"}

\* ------------------------------- one caller, statement by statement (SpecOne)
\* A single caller runs allocate_memory and free_memory with any argument,
\* logging in and out between calls.
NextOne ==
    \/ pc[1] = "idle" /\ \E u \in Users : Login(u)
    \/ pc[1] = "idle" /\ \E u \in Users : Logout(u)
    \/ \E size \in AllocSizes : Call(1, "alloc", size)
    \/ \E ptr \in FreePtrs : Call(1, "free", ptr)
    \/ sc_lock_acquire_test(1)
    \/ sc_lock_acquire_set(1)
    \/ AllocCheck(1)
    \/ AllocFind(1)
    \/ AllocSet(1)
    \/ AllocRegister(1)
    \/ FreeCheck(1)
    \/ FreeClear(1)
    \/ FreeUnregister(1)
    \/ sc_lock_release(1)

SpecOne == Init /\ [][NextOne]_vars

\* ------------------------------------- the scheduler's calls (SpecSched)
\* A slice is the call of a thread's entry by schedule_process: it begins in
\* Dispatch and ends in Return; in between the entry may call yield or
\* complete_current_thread.  A thread takes at most MaxSlices slices.
\* create_thread and load_balance are called between slices, as the tests do.
SetSched(S) ==
    /\ sc_threads' = S.threads
    /\ sc_run_queue' = S.q
    /\ sc_rq_head' = S.head
    /\ sc_rq_tail' = S.tail
    /\ sc_cpu_load' = S.load
    /\ sc_cpu_count' = S.cpus
    /\ sc_current_thread' = S.cur

\* every thread that is not Done is Ready and assigned to CPU 0
Skewed(S) ==
    /\ get_thread_count(S) >= 1
    /\ \A i \in ThreadIds(S) :
          S.threads[i + 1].state # THREAD_DONE
              => /\ S.threads[i + 1].state = THREAD_READY
                 /\ S.threads[i + 1].cpu_id = 0

\* a call other than load_balance led to S
NoteCall(S) ==
    /\ lb_run' = 0
    /\ lb_skew' = Skewed(S)

InitSched ==
    /\ MemoryInit
    /\ PairIdle
    /\ FsReady
    /\ AuthReady
    /\ \E cpus \in 0..(SC_MAX_CPUS + 1) : init_scheduler(cpus)
    /\ SchedHistInit
    /\ target = MaxSlices

CreateThread(entry, priority) ==
    LET r == create_thread(SchedState, entry, priority)
    IN /\ sc_slice = -1
       /\ SetSched(r.s)
       /\ sc_ret' = r.ret
       /\ sc_entry' = entry
       /\ NoteCall(r.s)
       /\ UNCHANGED <<sc_slice, steps, target, driver, ran>>
       /\ UNCHANGED nonSchedVars

DispatchStep ==
    LET r == schedule_process_dispatch(SchedState)
    IN /\ sc_slice = -1
       /\ SetSched(r.s)
       /\ sc_slice' = r.id
       /\ steps' = IF r.id >= 0 THEN [steps EXCEPT ![r.id] = @ + 1] ELSE steps
       /\ NoteCall(r.s)
       /\ UNCHANGED <<sc_ret, sc_entry, target, driver>>
       /\ UNCHANGED nonSchedVars

Dispatch ==
    /\ DispatchStep
    /\ UNCHANGED ran

Yield ==
    LET S == yield(SchedState)
    IN /\ sc_slice >= 0
       /\ steps[sc_slice] < MaxSlices
       /\ SetSched(S)
       /\ NoteCall(S)
       /\ UNCHANGED <<sc_slice, sc_ret, sc_entry, steps, target, driver, ran>>
       /\ UNCHANGED nonSchedVars

Complete ==
    LET S == complete_current_thread(SchedState)
    IN /\ sc_slice >= 0
       /\ SetSched(S)
       /\ NoteCall(S)
       /\ UNCHANGED <<sc_slice, sc_ret, sc_entry, steps, target, driver, ran>>
       /\ UNCHANGED nonSchedVars

Return ==
    LET S == schedule_process_return(SchedState, sc_slice)
    IN /\ sc_slice >= 0
       /\ sc_current_thread = sc_slice => steps[sc_slice] < MaxSlices
       /\ SetSched(S)
       /\ sc_slice' = -1
       /\ NoteCall(S)
       /\ UNCHANGED <<sc_ret, sc_entry, steps, target, driver, ran>>
       /\ UNCHANGED nonSchedVars

LoadBalance ==
    /\ sc_slice = -1
    /\ lb_run < MaxBalance
    /\ SetSched(load_balance(SchedState))
    /\ lb_run' = IF lb_skew THEN lb_run + 1 ELSE 1
    /\ UNCHANGED <<sc_slice, sc_ret, sc_entry, steps, target, driver, ran,
                   lb_skew>>
    /\ UNCHANGED nonSchedVars

NextSched ==
    \/ \E entry \in BOOLEAN, priority \in Priorities :
          CreateThread(entry, priority)
    \/ Dispatch
    \/ Yield
    \/ Complete
    \/ Return
    \/ LoadBalance

SpecSched == InitSched /\ [][NextSched]_vars

\* ------------------------------------ stale run-queue entries (SpecStale)
\* schedule_process has a branch for a popped id whose thread is not Ready.
\* No sequence of the calls above puts such an id into the run queue, so the
\* branch is exercised from scheduler states that hold one: up to
\* StaleThreads threads on one CPU, each in any state, and any sequence of
\* distinct ids in the run queue.
ThreadStates == {THREAD_READY, THREAD_RUNNING, THREAD_BLOCKED, THREAD_DONE}

\* the sequences of distinct elements of ids
DistinctSeqs(ids) ==
    UNION {{q \in [1..n -> ids] : \A k, l \in 1..n : k # l => q[k] # q[l]} :
              n \in 0..Cardinality(ids)}

InitStale ==
    /\ MemoryInit
    /\ PairIdle
    /\ FsReady
    /\ AuthReady
    /\ SchedHistInit
    /\ target = MaxSlices
    /\ sc_cpu_count = 1
    /\ sc_current_thread = -1
    /\ \E n \in 1..StaleThreads :
          /\ \E st \in [0..(n - 1) -> ThreadStates] :
                /\ sc_threads =
                      [i \in 1..n |->
                          [id |-> i - 1, cpu_id |-> 0, priority |-> 1,
                           quota |-> 1, state |-> st[i - 1], ticks |-> 0]]
                /\ sc_cpu_load =
                      [c \in 0..(SC_MAX_CPUS - 1) |->
                          IF c = 0
                          THEN Cardinality({i \in 0..(n - 1) : st[i] # THREAD_DONE})
                          ELSE 0]
          /\ \E q \in DistinctSeqs(0..(n - 1)) :
                /\ sc_run_queue =
                      [k \in 0..(SC_MAX_THREADS - 1) |->
                          IF k < Len(q) THEN q[k + 1] ELSE 0]
                /\ sc_rq_head = 0
                /\ sc_rq_tail = Len(q)

\* schedule_process and what a thread's entry may call
NextStale ==
    \/ Dispatch
    \/ Yield
    \/ Complete
    \/ Return

SpecStale == InitStale /\ [][NextStale]_vars

\* --------------------------- the scheduling loop of the test (SpecWorkers)
\* test_scalability.c: T threads are created with the entry worker, each
\* needing target slices; then schedule_process runs in a loop, with
\* load_balance between calls, until get_thread_count() is 0.
InitWorkers ==
    /\ MemoryInit
    /\ PairIdle
    /\ FsReady
    /\ AuthReady
    /\ \E cpus \in 1..SC_MAX_CPUS : init_scheduler(cpus)
    /\ sc_slice = -1
    /\ sc_ret = -1
    /\ sc_entry = FALSE
    /\ steps = [i \in 0..(SC_MAX_THREADS - 1) |-> 0]
    /\ target \in 1..MaxSlices
    /\ driver = "create"
    /\ ran = [i \in 0..(SC_MAX_THREADS - 1) |->
                 [j \in 0..(SC_MAX_THREADS - 1) |-> 0]]
    /\ lb_run = 0
    /\ lb_skew = FALSE

WorkerCreate(priority) ==
    /\ driver = "create"
    /\ sc_thread_count(SchedState) < SC_MAX_THREADS
    /\ CreateThread(TRUE, priority)

StartLoop ==
    /\ driver = "create"
    /\ sc_thread_count(SchedState) >= 1
    /\ driver' = "loop"
    /\ UNCHANGED <<sc_threads, sc_run_queue, sc_rq_head, sc_rq_tail,
                   sc_cpu_load, sc_cpu_count, sc_current_thread, sc_slice,
                   sc_ret, sc_entry, steps, target, ran, lb_run, lb_skew>>
    /\ UNCHANGED nonSchedVars

LoopDispatch ==
    /\ driver = "loop"
    /\ get_thread_count(SchedState) > 0
    /\ DispatchStep
    /\ ran' = IF sc_slice' < 0 THEN ran
              ELSE [i \in 0..(SC_MAX_THREADS - 1) |->
                       IF i = sc_slice'
                       THEN [j \in 0..(SC_MAX_THREADS - 1) |-> 0]
                       ELSE [ran[i] EXCEPT ![sc_slice'] = Min({@ + 1, 2})]]

\* worker of the test: the step count was raised at dispatch
Worker ==
    /\ driver = "loop"
    /\ sc_slice >= 0
    /\ sc_current_thread = sc_slice
    /\ IF steps[sc_slice] >= target THEN Complete ELSE Yield

LoopReturn ==
    /\ driver = "loop"
    /\ sc_current_thread = -1
    /\ Return

LoopBalance ==
    /\ driver = "loop"
    /\ sc_slice = -1
    /\ get_thread_count(SchedState) > 0
    /\ LoadBalance

EndLoop ==
    /\ driver = "loop"
    /\ sc_slice = -1
    /\ get_thread_count(SchedState) = 0
    /\ driver' = "done"
    /\ UNCHANGED <<sc_threads, sc_run_queue, sc_rq_head, sc_rq_tail,
                   sc_cpu_load, sc_cpu_count, sc_current_thread, sc_slice,
                   sc_ret, sc_entry, steps, target, ran, lb_run, lb_skew>>
    /\ UNCHANGED nonSchedVars

NextWorkers ==
    \/ \E priority \in Priorities : WorkerCreate(priority)
    \/ StartLoop
    \/ LoopDispatch
    \/ Worker
    \/ LoopReturn
    \/ LoopBalance
    \/ EndLoop

SpecWorkers == InitWorkers /\ [][NextWorkers]_vars

\* The loop of the test keeps calling schedule_process, and each call runs to
\* its end.
FairSpecWorkers ==
    /\ SpecWorkers
    /\ WF_vars(LoopDispatch)
    /\ WF_vars(Worker)
    /\ WF_vars(LoopReturn)
    /\ WF_vars(EndLoop)

SchedTypeOK ==
    /\ sc_cpu_count \in 1..SC_MAX_CPUS
    /\ sc_rq_head \in 0..(SC_MAX_THREADS - 1)
    /\ sc_rq_tail \in 0..(SC_MAX_THREADS - 1)
    /\ Len(sc_threads) <= SC_MAX_THREADS
    /\ sc_current_thread \in -1..(SC_MAX_THREADS - 1)
    /\ sc_slice \in -1..(SC_MAX_THREADS - 1)
    /\ \A i \in 0..(SC_MAX_THREADS - 1) : steps[i] \in 0..MaxSlices
    /\ lb_run \in 0..MaxBalance

\* --------------------------------------- the security calls (SpecAuth)
\* A fresh system: security_state and user_database as their static
\* initialisers leave them.
InitAuth ==
    /\ MemoryInit
    /\ PairIdle
    /\ FsReady
    /\ SchedIdle
    /\ is_initialized = FALSE
    /\ user_database = <<>>
    /\ sec_ret = [op |-> "none", ok |-> FALSE]

SecurityInit ==
    LET r == security_init(is_initialized, user_database)
    IN /\ is_initialized' = r.inited
       /\ user_database' = r.db
       /\ sec_ret' = [op |-> "init", ok |-> r.ok]
       /\ UNCHANGED current_user
       /\ UNCHANGED nonAuthVars

CreateUser(username, password, privilege) ==
    LET r == security_create_user(is_initialized, user_database, username,
                                  password, privilege)
    IN /\ user_database' = r.db
       /\ sec_ret' = [op |-> "create", ok |-> r.ok]
       /\ UNCHANGED <<is_initialized, current_user>>
       /\ UNCHANGED nonAuthVars

Authenticate(username, password) ==
    LET r == security_authenticate_user(is_initialized, user_database,
                                        current_user, username, password)
    IN /\ current_user' = r.cur
       /\ sec_ret' = [op |-> "login", ok |-> r.ok]
       /\ UNCHANGED <<is_initialized, user_database>>
       /\ UNCHANGED nonAuthVars

LogoutUser ==
    LET r == security_logout_user(is_initialized, current_user)
    IN /\ current_user' = r.cur
       /\ sec_ret' = [op |-> "logout", ok |-> r.ok]
       /\ UNCHANGED <<is_initialized, user_database>>
       /\ UNCHANGED nonAuthVars

NextAuth ==
    \/ SecurityInit
    \/ \E username \in Names, password \in Passwords, privilege \in Privileges :
          CreateUser(username, password, privilege)
    \/ \E username \in Names, password \in Passwords :
          Authenticate(username, password)
    \/ LogoutUser

SpecAuth == InitAuth /\ [][NextAuth]_vars

\* ================================================================ claims
Frames == 0..(NumFrames - 1)

UserFrames == KernelPages..(NumFrames - 1)

IsFrameAddr(ptr) == ptr % PAGE_SIZE = 0 /\ ptr \div PAGE_SIZE \in Frames

LiveFrames == {f \in Frames : alloc_by[f] # NoUser}

AllocStep == \E size \in AllocSizes : AllocateMemory(size)

\* C1: allocate_memory never returns the address of a frame whose earlier
\* allocation is still live (returned and not yet freed).
C1_NoDoubleAllocation ==
    [][AllocStep /\ Last'.ret # NULL
         => alloc_by[Last'.ret \div PAGE_SIZE] = NoUser]_vars

\* an allocation that follows a free while another allocation is live
C1_Witness ==
    /\ Len(hist) = 2
    /\ Prev.events = <<"MEMORY_FREED">>
    /\ Last.op = "alloc" /\ Last.ret # NULL
    /\ Cardinality(LiveFrames) >= 2

\* C2: at most one caller at a time is between sc_lock_acquire returning
\* and sc_lock_release.
C2_MutualExclusion == Cardinality({p \in Callers : Holding(p)}) <= 1

\* C3: if some frame's bit is clear, the frame search does not return the
\* out-of-memory sentinel.
C3_OomOnlyWhenFull ==
    (\E f \in Frames : ~bitmap_test(page_bitmap, f))
        => find_free_page(page_bitmap, next_free_page).frame # NoFrame

\* C4: an allocate_memory that fails on a full region registry returns NULL
\* and leaves the page bitmap and the region registry as they were.
C4_RegistryFullRollback ==
    [][(/\ region_count(memory_regions) >= MAX_MEMORY_REGIONS
        /\ AllocStep
        /\ Last'.events = <<"REGION_REGISTRATION_FAILED">>)
         => /\ Last'.ret = NULL
            /\ page_bitmap' = page_bitmap
            /\ memory_regions' = memory_regions]_vars

\* a call has just failed on the full registry while user frames are clear
C4_Witness ==
    /\ hist # <<>>
    /\ Last.op = "alloc"
    /\ Last.events = <<"REGION_REGISTRATION_FAILED">>
    /\ region_count(memory_regions) = MAX_MEMORY_REGIONS
    /\ UserFrames \ page_bitmap # {}

\* C5: every frame whose bitmap bit is clear has an index at or above
\* next_free_page.
C5_ClearFramesAboveHint ==
    \A f \in Frames : ~bitmap_test(page_bitmap, f) => f >= next_free_page

\* C6: with no free since initialisation, an allocate_memory(PAGE_SIZE) by a
\* logged-in principal fails only once all N-K user frames are allocated,
\* and then with out-of-memory.
C6_ExhaustionCount ==
    (/\ no_free_yet
     /\ hist # <<>>
     /\ Last.op = "alloc" /\ Last.arg = PAGE_SIZE /\ Last.user # NoUser
     /\ Last.ret = NULL)
        => /\ Cardinality(page_bitmap) = NumFrames
           /\ Last.events = <<"OUT_OF_MEMORY">>

\* C7: allocate_memory returning f, free_memory(f) by the same principal and
\* allocate_memory again, with no call in between, returns f again.
C7_FreeThenAllocateReuses ==
    [][(/\ Len(hist) = 2
        /\ Prev.op = "alloc" /\ Prev.ret # NULL
        /\ Last.op = "free" /\ Last.arg = Prev.ret /\ Last.user = Prev.user
        /\ AllocateMemory(PAGE_SIZE))
         => Last'.ret = Prev.ret]_vars

\* the second allocation has returned the frame just freed, while a higher
\* frame is clear and another allocation is live
C7_Witness ==
    /\ Len(hist) = 2
    /\ Prev.op = "free" /\ Prev.events = <<"MEMORY_FREED">>
    /\ Last.op = "alloc" /\ Last.ret = Prev.arg
    /\ \E f \in UserFrames : f > Last.ret \div PAGE_SIZE /\ f \notin page_bitmap
    /\ Cardinality(LiveFrames) >= 2

HasRegion(regs, address, owner) ==
    \E i \in 1..Len(regs) : regs[i].base_address = address /\ regs[i].owner = owner

\* C8: free_memory by principal B of a page allocated by another principal A
\* is rejected with WRONG_OWNER; the page stays allocated and registered to A.
C8_OwnershipIsolation ==
    [][\A ptr \in FreePtrs :
          (/\ IsFrameAddr(ptr)
           /\ alloc_by[ptr \div PAGE_SIZE] # NoUser
           /\ current_user \in Users \ {alloc_by[ptr \div PAGE_SIZE]}
           /\ FreeMemory(ptr))
            => /\ Last'.events = <<"WRONG_OWNER", "INVALID_FREE">>
               /\ bitmap_test(page_bitmap', ptr \div PAGE_SIZE)
               /\ HasRegion(memory_regions', ptr, alloc_by[ptr \div PAGE_SIZE])
               /\ alloc_by' = alloc_by]_vars

\* a principal's free of a page that another principal allocated before a
\* change of login has just been rejected
C8_Witness ==
    /\ hist # <<>>
    /\ Last.op = "free" /\ Last.user \in Users
    /\ IsFrameAddr(Last.arg)
    /\ alloc_by[Last.arg \div PAGE_SIZE] \in Users \ {Last.user}
    /\ Last.events = <<"WRONG_OWNER", "INVALID_FREE">>

\* C9: the permission step of validate_memory_access passes only if every
\* requested permission bit is set in the covering region's mask.
C9_PermissionSubset ==
    (probe.covered /\ probe.ok)
        => BitAnd(probe.protection, probe.access_type) = probe.access_type

\* C10: with protection enabled, free_memory of the address of a user frame
\* that is not currently allocated is rejected as an unregistered region and
\* leaves the bitmap, the region registry and the next-free hint unchanged.
C10_FreeOfUnallocated ==
    [][\A ptr \in FreePtrs :
          (/\ memory_protection_enabled
           /\ IsFrameAddr(ptr)
           /\ ptr \div PAGE_SIZE \in UserFrames
           /\ alloc_by[ptr \div PAGE_SIZE] = NoUser
           /\ FreeMemory(ptr))
            => /\ Last'.events = <<"UNREGISTERED_REGION", "INVALID_FREE">>
               /\ page_bitmap' = page_bitmap
               /\ memory_regions' = memory_regions
               /\ next_free_page' = next_free_page]_vars

\* a double free: the call before last freed the page, the last call tried
\* to free it again, with the hint above the page
C10_Witness ==
    /\ Len(hist) = 2
    /\ Prev.op = "free" /\ Prev.events = <<"MEMORY_FREED">>
    /\ Last.op = "free" /\ Last.arg = Prev.arg
    /\ Last.events = <<"UNREGISTERED_REGION", "INVALID_FREE">>

\* C11: with no current principal allocate_memory returns NULL and leaves the
\* bitmap, the region registry and the next-free hint unchanged; with a
\* principal logged in (again), a registry slot free and a frame clear,
\* allocate_memory(PAGE_SIZE) succeeds.
C11_NoAnonymousAllocation ==
    [][/\ (AllocStep /\ current_user = NoUser)
            => /\ Last'.ret = NULL
               /\ Last'.events = <<"NO_USER">>
               /\ page_bitmap' = page_bitmap
               /\ memory_regions' = memory_regions
               /\ next_free_page' = next_free_page
       /\ (/\ AllocateMemory(PAGE_SIZE)
           /\ current_user # NoUser
           /\ region_count(memory_regions) < MAX_MEMORY_REGIONS
           /\ UserFrames \ page_bitmap # {})
            => /\ Last'.ret # NULL
               /\ alloc_by'[Last'.ret \div PAGE_SIZE] = current_user]_vars

\* the current principal has logged out while pages are live, and an
\* allocation has just been refused
C11_Witness ==
    /\ hist # <<>>
    /\ Last.op = "alloc" /\ Last.arg = PAGE_SIZE
    /\ Last.events = <<"NO_USER">>
    /\ current_user = NoUser
    /\ LiveFrames # {}

\* ------------------------------------------------------ scheduler claims
Live(S) == {i \in ThreadIds(S) : S.threads[i + 1].state # THREAD_DONE}

MaxOf(S) == CHOOSE x \in S : \A y \in S : x >= y

\* max(load) - min(load) over the CPUs in use
GapOf(load, cpus) ==
    LET loads == {load[c] : c \in 0..(cpus - 1)}
    IN MaxOf(loads) - Min(loads)

Gap == GapOf(sc_cpu_load, sc_cpu_count)

\* C12: once the loop of schedule_process calls (load_balance interleaved) has
\* begun for T created workers needing M slices each, it reaches
\* get_thread_count() = 0, and then every worker's closure has been invoked
\* exactly M times.
C12_LoopCompletes ==
    (driver = "loop")
        ~> (/\ get_thread_count(SchedState) = 0
            /\ \A i \in ThreadIds(SchedState) : steps[i] = target)

\* C13: when the loop has ended with thread count 0, the tick counter of
\* every thread equals the M slices it ran.
C13_TicksCountSlices ==
    driver = "done"
        => \A i \in ThreadIds(SchedState) : sc_threads[i + 1].ticks = target

\* C14: when a thread is dispatched for a further slice, every other thread
\* that is not Done has run exactly one slice since that thread's previous
\* slice (and a thread that is Done by then at most one).
C14_FifoRoundRobin ==
    [][(LoopDispatch /\ sc_slice' >= 0 /\ steps[sc_slice'] >= 1)
          => \A j \in ThreadIds(SchedState) \ {sc_slice'} :
                IF sc_threads[j + 1].state # THREAD_DONE
                THEN ran[sc_slice'][j] = 1
                ELSE ran[sc_slice'][j] <= 1]_vars

\* C15: in a run of load_balance calls that starts with all T live threads
\* Ready on CPU 0, no call increases max(load) - min(load), and from the
\* T-th call on max(load) - min(load) <= 1.
C15_BalanceConverges ==
    [][(LoadBalance /\ lb_skew)
          => /\ GapOf(sc_cpu_load', sc_cpu_count') <= Gap
             /\ lb_run' >= get_thread_count(SchedState)
                   => GapOf(sc_cpu_load', sc_cpu_count') <= 1]_vars

C15_Witness ==
    /\ lb_skew
    /\ sc_cpu_count >= 2
    /\ get_thread_count(SchedState) >= 2
    /\ lb_run >= get_thread_count(SchedState)
    /\ sc_cpu_load[0] < get_thread_count(SchedState)
    /\ Gap <= 1

\* C16: while no thread has been scheduled yet (only init_scheduler,
\* create_thread and load_balance calls so far), the load counters of the
\* CPUs in use differ by at most 1.
C16_CreationBalanced ==
    (\A i \in 0..(SC_MAX_THREADS - 1) : steps[i] = 0)
        => \A c, d \in 0..(sc_cpu_count - 1) :
              sc_cpu_load[c] - sc_cpu_load[d] <= 1

C16_Witness ==
    /\ \A i \in 0..(SC_MAX_THREADS - 1) : steps[i] = 0
    /\ Len(sc_threads) >= 3
    /\ sc_cpu_count >= 2
    /\ lb_run >= 1
    /\ sc_cpu_load[0] > sc_cpu_load[sc_cpu_count - 1]

\* C17: a load_balance call changes the cpu_id of at most one thread; if it
\* changes one, max(load) - min(load) was above 1, the thread was Ready, its
\* old CPU had the largest load and its new CPU the smallest, and the two
\* counters went down and up by one; otherwise the counters are unchanged.
C17_OneMigration ==
    [][LoadBalance
          => LET moved == {i \in ThreadIds(SchedState) :
                              sc_threads'[i + 1].cpu_id # sc_threads[i + 1].cpu_id}
                 loads == {sc_cpu_load[c] : c \in 0..(sc_cpu_count - 1)}
             IN /\ Cardinality(moved) <= 1
                /\ Len(sc_threads') = Len(sc_threads)
                /\ moved = {} => sc_cpu_load' = sc_cpu_load
                /\ \A i \in moved :
                      LET from == sc_threads[i + 1].cpu_id
                          to == sc_threads'[i + 1].cpu_id
                      IN /\ Gap > 1
                         /\ sc_threads[i + 1].state = THREAD_READY
                         /\ sc_cpu_load[from] = MaxOf(loads)
                         /\ sc_cpu_load[to] = Min(loads)
                         /\ sc_cpu_load' =
                               [sc_cpu_load EXCEPT ![from] = @ - 1,
                                                   ![to] = @ + 1]]_vars

C17_Witness ==
    /\ lb_skew
    /\ lb_run = 1
    /\ \E i \in Live(SchedState) : sc_threads[i + 1].cpu_id # 0

\* C18: a create_thread call that returns an id appends one thread, assigned
\* to the lowest-numbered CPU among those of smallest load, in state Ready,
\* and neither runs its closure nor changes the current thread.
C18_CreateOnLeastLoaded ==
    [][((\E entry \in BOOLEAN, priority \in Priorities :
             CreateThread(entry, priority)) /\ sc_ret' >= 0)
          => LET t == sc_threads'[sc_ret' + 1]
             IN /\ sc_ret' = Len(sc_threads)
                /\ Len(sc_threads') = Len(sc_threads) + 1
                /\ t.state = THREAD_READY
                /\ t.cpu_id \in 0..(sc_cpu_count - 1)
                /\ \A d \in 0..(sc_cpu_count - 1) :
                      /\ sc_cpu_load[t.cpu_id] <= sc_cpu_load[d]
                      /\ d < t.cpu_id => sc_cpu_load[d] > sc_cpu_load[t.cpu_id]
                /\ steps' = steps
                /\ steps[sc_ret'] = 0
                /\ sc_current_thread' = sc_current_thread
                /\ sc_slice' = sc_slice]_vars

C18_Witness ==
    /\ sc_cpu_count = 2
    /\ sc_ret = 2
    /\ Len(sc_threads) = 3
    /\ sc_threads[3].cpu_id = 0
    /\ sc_threads[3].state = THREAD_READY
    /\ steps[2] = 0
    /\ sc_cpu_load[0] = 2 /\ sc_cpu_load[1] = 1

\* C19: create_thread with SC_MAX_THREADS threads in the table returns -1 and
\* leaves the thread table, the run queue and the load counters unchanged.
C19_FullTableRejected ==
    [][((\E entry \in BOOLEAN, priority \in Priorities :
             CreateThread(entry, priority))
        /\ Len(sc_threads) = SC_MAX_THREADS)
          => /\ sc_ret' = -1
             /\ UNCHANGED <<sc_threads, sc_run_queue, sc_rq_head, sc_rq_tail,
                            sc_cpu_load>>]_vars

C19_Witness ==
    /\ Len(sc_threads) = SC_MAX_THREADS
    /\ sc_entry
    /\ sc_ret = -1

\* ------------------------------------------------------- security claims
\* C20: right after security_init on a fresh system,
\* security_authenticate_user("admin", "admin123") succeeds and makes admin,
\* an account with privilege ADMIN, the current principal.
C20_DefaultAdminLogin ==
    [][(SecurityInit /\ ~is_initialized)
          => LET r == security_authenticate_user(is_initialized',
                          user_database', current_user', "admin", admin123)
                 i == find_user_by_username(user_database', "admin")
             IN /\ r.ok
                /\ r.cur = "admin"
                /\ i # 0
                /\ user_database'[i].privilege = PRIVILEGE_ADMIN]_vars

\* ------------------------------------------------- memory claims, continued
RegionsAt(regs, address) ==
    {i \in 1..Len(regs) : regs[i].base_address = address}

\* C25: a non-kernel frame's bit is set exactly when one region with the
\* frame's base address is registered (none otherwise), that region belongs
\* to the principal who allocated the frame, and no two registered regions
\* overlap.
C25_BitmapMatchesRegistry ==
    /\ \A f \in UserFrames :
          LET at == RegionsAt(memory_regions, f * PAGE_SIZE)
          IN IF f \in page_bitmap
             THEN /\ Cardinality(at) = 1
                  /\ alloc_by[f] # NoUser
                  /\ \A i \in at : memory_regions[i].owner = alloc_by[f]
             ELSE at = {}
    /\ \A i, j \in 1..Len(memory_regions) :
          i # j =>
             \/ memory_regions[i].base_address + memory_regions[i].size
                   <= memory_regions[j].base_address
             \/ memory_regions[j].base_address + memory_regions[j].size
                   <= memory_regions[i].base_address

\* frames of both principals are live after a free and a failed allocation
C25_Witness ==
    /\ Len(hist) = 2
    /\ Prev.events = <<"MEMORY_FREED">>
    /\ Last.op = "alloc" /\ Last.ret = NULL
    /\ \E f, g \in LiveFrames : alloc_by[f] = "admin" /\ alloc_by[g] = "guest"
    /\ UserFrames \ page_bitmap # {}

\* C26: with a single caller, mm_lock is free whenever no call is in progress
\* and whenever the caller is about to test it in sc_lock_acquire, so the
\* test never spins.
C26_LockReleasedOnReturn ==
    pc[1] \in {"idle", "acquire_test"} => mm_lock = 0

\* a call enters after the registry has filled up and the user logged out
C26_Witness ==
    /\ pc[1] = "acquire_test"
    /\ mm_lock = 0
    /\ Len(memory_regions) = MAX_MEMORY_REGIONS
    /\ current_user = NoUser
    /\ Len(hist) = 2

C28_KernelFramesKept ==
    /\ \A f \in 0..(KernelPages - 1) : f \in page_bitmap
    /\ \E i \in 1..Len(memory_regions) :
          /\ memory_regions[i].base_address = 0
          /\ memory_regions[i].size = KERNEL_END
          /\ memory_regions[i].owner = NoUser
    /\ hist # <<>> =>
          /\ (Last.op = "free" /\ Last.arg < KERNEL_END)
                => Last.events # <<"MEMORY_FREED">>
          /\ (Last.op = "alloc" /\ Last.ret # NULL) => Last.ret >= KERNEL_END

\* a logged-in principal with live frames has tried to free a kernel page
C28_Witness ==
    /\ hist # <<>>
    /\ Last.op = "free"
    /\ Last.arg = PAGE_SIZE
    /\ Last.arg < KERNEL_END
    /\ Last.user # NoUser
    /\ LiveFrames # {}

\* ------------------------------------------- scheduler claims, continued
StateOf(i) == sc_threads[i + 1].state

InQueue(S, i) == \E k \in 1..Len(QueueSeq(S)) : QueueSeq(S)[k] = i

RECURSIVE SumLoad(_, _)
SumLoad(load, n) == IF n = 0 THEN 0 ELSE load[n - 1] + SumLoad(load, n - 1)

\* C21: a thread's state changes only from Ready to Running in
\* schedule_process, from Running to Ready in yield or at the end of
\* schedule_process, and from Running to Done in complete_current_thread;
\* no thread becomes Blocked; a Done thread stays Done, is not in the run
\* queue afterwards, does not become the current thread and has its closure
\* called no more.
C21_ThreadLifecycle ==
    [][\A i \in ThreadIds(SchedState) :
          LET old == StateOf(i)
              new == sc_threads'[i + 1].state
          IN /\ new # THREAD_BLOCKED
             /\ old # new =>
                   \/ old = THREAD_READY /\ new = THREAD_RUNNING /\ Dispatch
                   \/ old = THREAD_RUNNING /\ new = THREAD_READY
                         /\ (Yield \/ Return)
                   \/ old = THREAD_RUNNING /\ new = THREAD_DONE /\ Complete
             /\ old = THREAD_DONE =>
                   /\ new = THREAD_DONE
                   /\ ~InQueue(SchedState', i)
                   /\ sc_current_thread' # i
                   /\ steps'[i] = steps[i]]_vars

\* a thread is in its last slice while one is Done and one has been
\* re-enqueued at the end of schedule_process
C21_Witness ==
    \E i, j, k \in ThreadIds(SchedState) :
        /\ StateOf(i) = THREAD_DONE
        /\ StateOf(j) = THREAD_RUNNING /\ steps[j] = MaxSlices
        /\ StateOf(k) = THREAD_READY /\ sc_threads[k + 1].ticks >= 1

\* C22: the ids in the run queue are pairwise distinct and each belongs to a
\* thread in state Ready.
C22_QueueHoldsReadyOnce ==
    LET q == QueueSeq(SchedState)
    IN /\ \A k \in 1..Len(q) :
             /\ q[k] \in ThreadIds(SchedState)
             /\ StateOf(q[k]) = THREAD_READY
       /\ \A k, l \in 1..Len(q) : k # l => q[k] # q[l]

\* two ids are queued, one of them re-enqueued by yield in the slice that
\* is still in progress, while another thread is Done
C22_Witness ==
    /\ Len(QueueSeq(SchedState)) >= 2
    /\ sc_slice >= 0
    /\ sc_current_thread = -1
    /\ InQueue(SchedState, sc_slice)
    /\ \E i \in ThreadIds(SchedState) : StateOf(i) = THREAD_DONE

\* C23: whenever no slice is in progress, every thread in state Ready is in
\* the run queue.
C23_NoLostEnqueue ==
    sc_slice = -1
        => \A i \in ThreadIds(SchedState) :
              StateOf(i) = THREAD_READY => InQueue(SchedState, i)

\* C24: every load counter equals the number of threads that are not Done
\* and are assigned to that CPU; so no counter is negative and the counters
\* add up to get_thread_count().
C24_LoadCountsThreads ==
    /\ \A c \in 0..(SC_MAX_CPUS - 1) :
          /\ sc_cpu_load[c] =
                Cardinality({i \in Live(SchedState) : sc_threads[i + 1].cpu_id = c})
          /\ sc_cpu_load[c] >= 0
    /\ SumLoad(sc_cpu_load, SC_MAX_CPUS) = get_thread_count(SchedState)

\* after completions and a migration
C24_Witness ==
    /\ lb_run >= 1
    /\ sc_cpu_load[0] >= 1
    /\ \E i \in ThreadIds(SchedState) : StateOf(i) = THREAD_DONE
    /\ \E i \in Live(SchedState) : sc_threads[i + 1].cpu_id # 0
    /\ lb_skew

\* C29: load_balance leaves the run queue, every thread's state, tick
\* counter and other fields except cpu_id, the current thread and the sum of
\* the load counters as they were; at most one cpu_id and at most two
\* counters change.
C29_BalanceFrame ==
    [][LoadBalance
          => /\ UNCHANGED <<sc_run_queue, sc_rq_head, sc_rq_tail,
                            sc_current_thread, sc_cpu_count>>
             /\ Len(sc_threads') = Len(sc_threads)
             /\ \A i \in 1..Len(sc_threads) :
                   sc_threads'[i] =
                      [sc_threads[i] EXCEPT !.cpu_id = sc_threads'[i].cpu_id]
             /\ Cardinality({i \in 1..Len(sc_threads) :
                   sc_threads'[i].cpu_id # sc_threads[i].cpu_id}) <= 1
             /\ Cardinality({c \in 0..(SC_MAX_CPUS - 1) :
                   sc_cpu_load'[c] # sc_cpu_load[c]}) <= 2
             /\ SumLoad(sc_cpu_load', SC_MAX_CPUS)
                   = SumLoad(sc_cpu_load, SC_MAX_CPUS)]_vars

\* the first call of a run has moved one of several queued threads
C29_Witness ==
    /\ lb_skew
    /\ lb_run = 1
    /\ get_thread_count(SchedState) >= 2
    /\ sc_cpu_load[0] = get_thread_count(SchedState) - 1
    /\ Len(QueueSeq(SchedState)) >= 2

PairPriorities == {1, 2}

InitPair ==
    /\ MemoryInit
    /\ SchedIdle
    /\ AuthReady
    /\ FsReady
    /\ \E cpus \in 1..SC_MAX_CPUS :
          twin = [a |-> run_after_init(cpus), b |-> run_after_init(cpus)]

PairCreateThread(entry, priority_a, priority_b) ==
    /\ twin' = [a |-> run_create_thread(twin.a, entry, priority_a),
                b |-> run_create_thread(twin.b, entry, priority_b)]
    /\ UNCHANGED nonPairVars

\* ticks stays below MaxTicks
TicksLeft(R) ==
    \A i \in 1..Len(R.s.threads) : R.s.threads[i].ticks < MaxTicks

PairScheduleProcess ==
    /\ TicksLeft(twin.a) /\ TicksLeft(twin.b)
    /\ twin' = [a |-> schedule_process(twin.a), b |-> schedule_process(twin.b)]
    /\ UNCHANGED nonPairVars

PairLoadBalance ==
    /\ twin' = [a |-> run_load_balance(twin.a), b |-> run_load_balance(twin.b)]
    /\ UNCHANGED nonPairVars

NextPair ==
    \/ \E entry \in Closures \cup {NoEntry}, pa \in Priorities,
             pb \in PairPriorities :
          PairCreateThread(entry, pa, pb)
    \/ PairScheduleProcess
    \/ PairLoadBalance

SpecPair == InitPair /\ [][NextPair]_vars

\* a run without the priorities it was given
WithoutPriority(R) ==
    [R EXCEPT !.s.threads =
        [i \in 1..Len(R.s.threads) |-> [R.s.threads[i] EXCEPT !.priority = 0]]]

\* C31: two runs that get the same create_thread, schedule_process and
\* load_balance calls with the same entries and differ only in the priorities
\* dispatch the same thread at every schedule_process call and agree on every
\* CPU assignment, queue position, state and load.
C31_PriorityIgnored == WithoutPriority(twin.a) = WithoutPriority(twin.b)

\* The runs gave some thread different priorities, a thread created after
\* the first has been dispatched, and a thread sits on a CPU other than the
\* first.
C31_Witness ==
    /\ \E i \in 1..Len(twin.a.s.threads) :
          twin.a.s.threads[i].priority # twin.b.s.threads[i].priority
    /\ \E i \in 2..Len(twin.a.s.threads) :
          twin.a.steps[i] >= 1 /\ twin.b.steps[i] >= 1
    /\ \E i \in 1..Len(twin.b.s.threads) : twin.b.s.threads[i].cpu_id > 0

\* the last call was an allocate_memory or free_memory that did its work
CallSucceeded ==
    \/ Last.op = "alloc" /\ Last.ret # NULL
    \/ Last.op = "free" /\ Last.events = <<"MEMORY_FREED">>

\* C32: security_violations_logged rises by at least one in every
\* allocate_memory or free_memory call that is denied, is left as it was by
\* every call that succeeds, and never decreases.
C32_CounterCountsDenials ==
    (hist # <<>> /\ Last.op \in {"alloc", "free"})
        => \A n \in 0..MaxViolations :
              IF CallSucceeded
              THEN violations_after(n, Last.events) = n
              ELSE violations_after(n, Last.events) >= n + 1

\* ------------------------------------------------- file system calls (SpecFs)
WriteSizes == {k * BLOCK_SIZE : k \in 0..MAX_BLOCKS_PER_FILE}
WriteOffsets == {0, BLOCK_SIZE}

FsCreateFile(name, parent_dir) ==
    LET r == fs_create_file(fs, name, parent_dir)
    IN /\ fs' = r.fs
       /\ fs_ret' = [op |-> "fs_create_file", ret |-> r.ret]
       /\ UNCHANGED nonFsVars

FsWriteFile(file_index, data, size, offset) ==
    LET r == fs_write_file(fs, file_index, data, size, offset)
    IN /\ fs' = r.fs
       /\ fs_ret' = [op |-> "fs_write_file", ret |-> r.ret]
       /\ UNCHANGED nonFsVars

FsDelete(file_index) ==
    LET r == fs_delete(fs, file_index)
    IN /\ fs' = r.fs
       /\ fs_ret' = [op |-> "fs_delete", ret |-> r.ret]
       /\ UNCHANGED nonFsVars

NextFs ==
    \/ \E name \in FileNames, parent_dir \in 0..FsEntries :
          FsCreateFile(name, parent_dir)
    \/ \E file_index \in 0..FsEntries, data \in FsData \cup {NoData},
          size \in WriteSizes, offset \in WriteOffsets :
          FsWriteFile(file_index, data, size, offset)
    \/ \E file_index \in 0..FsEntries : FsDelete(file_index)

SpecFs == Init /\ [][NextFs]_vars

\* the entries of files that exist
LiveFiles ==
    {i \in 0..(FsEntries - 1) :
        fs.files[i].used # 0 /\ fs.files[i].type = FILE_TYPE_FILE}

\* the block numbers file i holds
BlocksOf(i) == {fs.files[i].blocks[k] : k \in 1..fs.files[i].block_count}

\* C33: after any sequence of fs_create_file, fs_write_file and fs_delete
\* calls no data block number is held by two files that both exist.
C33_BlocksNotShared ==
    \A i, j \in LiveFiles : i # j => BlocksOf(i) \cap BlocksOf(j) = {}

====
